---- MODULE Spec2Model ----
(***************************************************************************)
(* Model of voidension (src/main.go): a reverse-proxy load balancer with a *)
(* pool of backends (Alive / Locked flags under the mutex mu), a request   *)
(* handler (proxyHandler), a retry queue (requestQueue, handleRequests,    *)
(* forwardRequest) and an availability prober (checkServerAvailability).   *)
(***************************************************************************)
EXTENDS Integers, Sequences, FiniteSets, TLC

\* ---- bounds of the model -------------------------------------------------
NumServers == 2          \* len(config.Outgoing.ServerPostURLs)
NumReqs    == 2          \* inbound requests over the run

\* ---- program constants ---------------------------------------------------
QueueCap                  == 100   \* make(chan *http.Request, 100)
RespQueueCap              == 100   \* make(chan *http.Response, 100)
StatusOK                  == 200
StatusForbidden           == 403
StatusMethodNotAllowed    == 405
StatusInternalServerError == 500
StatusBadGateway          == 502

NoServer == 0            \* the nil *Server
NoStatus == 0            \* nothing written to the caller yet
Servers == 1..NumServers
Reqs    == 1..NumReqs

Methods == {"POST", "GET"}
NoMethod == ""                            \* no request has arrived yet
IPs     == {"10.0.0.1", "10.0.0.2"}
NoHeader == ""                            \* r.Header.Get on an absent header
PeerPort == 4242                          \* the port part of r.RemoteAddr
AllowlistChoices == {<<>>, <<"10.0.0.1">>} \* config.Incoming.AllowedIPs
BadURLChoices    == {{}, {1}}             \* backends whose URL NewRequest rejects
BackendStatuses  == {200, 500}            \* resp.StatusCode of an answer
DoErrors         == {"timeout", "neterr"} \* err of client.Do
NoErr            == "nil"
\* what client.Do can return: (nil, err) or (resp, nil)
DoOutcomes ==
  {[err |-> e, status |-> NoStatus] : e \in DoErrors} \cup
  {[err |-> NoErr, status |-> st] : st \in BackendStatuses}

\* The world a run lives in: what callers send and how reads, backends and
\* dials may turn out.
AnyEnv ==
  [methods |-> Methods, hosts |-> IPs, xRealIPs |-> IPs \cup {NoHeader},
   readOK |-> BOOLEAN, doOutcomes |-> DoOutcomes, dialOK |-> BOOLEAN]
\* POST requests, readable bodies, backends that stay up and answer 200
HealthyEnv ==
  [methods |-> {"POST"}, hosts |-> IPs, xRealIPs |-> IPs \cup {NoHeader},
   readOK |-> {TRUE}, doOutcomes |-> {[err |-> NoErr, status |-> 200]},
   dialOK |-> {TRUE}]

VARIABLES
  env,            \* the environment of the run (never changes)
  serverPool,     \* serverPool: the configured backends, in order
  allowedIPs,     \* config.Incoming.AllowedIPs
  badURL,         \* servers whose configured URL does not parse
  Alive,          \* Server.Alive, per backend
  Locked,         \* Server.Locked, per backend
  requestQueue,   \* chan *http.Request (buffered)
  responseQueue,  \* chan *http.Response (buffered)
  h,              \* proxyHandler goroutine of each request
  g,              \* retry goroutine spawned by handleRequests for each request
  w,              \* what the caller of each request has been sent
  crashed,        \* the process died of an unrecovered panic
  held,           \* history: claims minus releases, per backend
  holder,         \* history: request holding the claim of each backend
  fault,          \* history: how the forwarding attempt of each request failed
  \* -- the header rewriting of one request, looked at on its own
  inbound,        \* the inbound *http.Request: RemoteAddr and Header
  decision,       \* what the allowlist check made of it
  outbound,       \* newReq.Header as handed to client.Do, and by which path
  \* -- the prober and a caller of findAvailableServer, statement by statement
  mu,             \* sync.Mutex mu: who holds it
  prober,         \* checkServerAvailability: position and cycle number
  probes,         \* the goroutines spawned at line 286, per backend and cycle
  finder,         \* a goroutine inside findAvailableServer / unlockServer
  \* -- the queued path counted rather than named, for long runs
  cnt,            \* how many requests are at each point of the queued path
  \* -- callers that went away
  gone            \* history: requests whose caller has disconnected

hdrVars == <<inbound, decision, outbound>>
raceVars == <<mu, prober, probes, finder>>

\* what no step of proxyHandler, handleRequests, forwardRequest or of the
\* prober as seen by them changes
cfgVars == <<env, serverPool, allowedIPs, badURL, hdrVars, raceVars, cnt, gone>>

reqVars == <<requestQueue, responseQueue, h, g, w, crashed, held, holder, fault>>

vars == <<Alive, Locked, reqVars, cfgVars>>

Pool == DOMAIN serverPool      \* indices of serverPool

\* ---- values ----------------------------------------------------------------
NoBody      == [kind |-> "none",    s |-> 0, r |-> 0]
EmptyBody   == [kind |-> "empty",   s |-> 0, r |-> 0]
\* the text http.Error writes
ErrorBody(msg) == [kind |-> msg, s |-> 0, r |-> 0]
\* the body backend s answers to the forwarded request r
BackendBody(s, r) == [kind |-> "backend", s |-> s, r |-> r]
\* what http.Error(w, msg, code) leaves with the caller
HttpError(code, msg) == [status |-> code, body |-> ErrorBody(msg)]
NoFault == [kind |-> "none", server |-> NoServer]
NoResp      == [status |-> NoStatus, body |-> NoBody]
NoWrite     == [status |-> NoStatus, body |-> NoBody]

HIdle == [pc |-> "idle", method |-> NoMethod, remoteIP |-> NoHeader,
          server |-> NoServer, resp |-> NoResp]
GNone == [pc |-> "none", server |-> NoServer, resp |-> NoResp]
\* a goroutine that has returned: its locals are gone
HDone == [HIdle EXCEPT !.pc = "done"]
\* the handler hd has returned; the request's method stays on record
Returned(hd) == [HDone EXCEPT !.method = hd.method]
GDone == [GNone EXCEPT !.pc = "done"]

\* ---- requests and their headers ---------------------------------------------
\* An http.Header maps a header name to the list of its values; an absent header
\* has no values.  An address is written as <<ip>> or, with its port, as
\* <<ip, port>>; the value of X-Forwarded-For is the comma separated chain of
\* such addresses, the value of any other header is a string.
HeaderNames == {"X-Forwarded-For", "X-Real-IP", "Content-Type"}
EmptyHeader == [n \in HeaderNames |-> <<>>]
IPText(ip) == <<ip>>
NoChain == <<>>                           \* the empty string, read as a chain
ChainChoices == {<<IPText("10.0.0.1")>>, <<IPText("10.0.0.2"), IPText("10.0.0.1")>>}
HeaderChoices ==
  {[n \in HeaderNames |->
      CASE n = "X-Forwarded-For" -> xff
        [] n = "X-Real-IP" -> xri
        [] OTHER -> ct] :
     xff \in {<<>>} \cup {<<c>> : c \in ChainChoices},
     xri \in {<<>>} \cup {<<ip>> : ip \in IPs},
     ct \in {<<>>, <<"text/plain">>}}
RequestChoices ==
  {[remoteAddr |-> <<host, PeerPort>>, header |-> hd] :
     host \in IPs, hd \in HeaderChoices}
NoRequest == [remoteAddr |-> <<>>, header |-> EmptyHeader]
NoDecision == "none"
NoOutbound == [path |-> "none", header |-> EmptyHeader]

\* ---- pure functions of the program -----------------------------------------
\* the for loop of findAvailableServer, from index i of serverPool on
RECURSIVE scanPool(_, _, _)
scanPool(i, alive, locked) ==
  IF i > Len(alive) THEN NoServer
  ELSE IF alive[i] /\ ~locked[i] THEN i
  ELSE scanPool(i + 1, alive, locked)

\* a scan that forgets the Alive test
RECURSIVE scanPoolIgnoringAlive(_, _, _)
scanPoolIgnoringAlive(i, alive, locked) ==
  IF i > Len(alive) THEN NoServer
  ELSE IF ~locked[i] THEN i
  ELSE scanPoolIgnoringAlive(i + 1, alive, locked)

findAvailableServerIgnoringAlive(alive, locked) ==
  LET s == scanPoolIgnoringAlive(1, alive, locked)
  IN  [server |-> s,
       Locked |-> IF s = NoServer THEN locked ELSE [locked EXCEPT ![s] = TRUE]]

\* findAvailableServer under mu: the server returned and the Locked flags after
findAvailableServer(alive, locked) ==
  LET s == scanPool(1, alive, locked)
  IN  [server |-> s,
       Locked |-> IF s = NoServer THEN locked ELSE [locked EXCEPT ![s] = TRUE]]

\* unlockServer under mu
unlockServer(s, locked) == [locked EXCEPT ![s] = FALSE]

\* host part of r.RemoteAddr (net.SplitHostPort); RemoteAddr is <<host, port>>
SplitHost(remoteAddr) == remoteAddr[1]

\* lines 201-205: X-Real-IP if the header is present, else the peer's host
resolveIP(xRealIP, remoteAddr) ==
  IF xRealIP = NoHeader THEN SplitHost(remoteAddr) ELSE xRealIP

\* an allowlist check that also denies everybody when the list is empty
isIPAllowedNoEmptyCase(ip, allowed) ==
  \E i \in 1..Len(allowed) : allowed[i] = ip

isIPAllowed(ip, allowed) ==
  IF Len(allowed) = 0 THEN TRUE
  ELSE \E i \in 1..Len(allowed) : allowed[i] = ip

\* r.Header.Get(name): the first value of the header, or the empty value
HeaderGet(hd, name, empty) == IF hd[name] = <<>> THEN empty ELSE hd[name][1]
\* Header.Del and Header.Add
HeaderDel(hd, name) == [hd EXCEPT ![name] = <<>>]
HeaderAdd(hd, name, v) == [hd EXCEPT ![name] = Append(@, v)]

\* lines 201-205 on a whole request: remoteIP
callerIP(req) ==
  resolveIP(HeaderGet(req.header, "X-Real-IP", NoHeader), req.remoteAddr)

\* lines 201-211: what the allowlist check makes of a request
allowDecision(req, allowed) ==
  IF isIPAllowed(callerIP(req), allowed) THEN "allow" ELSE "deny"

\* lines 237-249: newReq.Header as proxyHandler builds it.  currentIP is
\* r.RemoteAddr, port included; currentXFF falls back to remoteIP.
proxyHeaders(req) ==
  LET remoteIP == callerIP(req)
      currentIP == req.remoteAddr
      copied == req.header
      xff == HeaderGet(req.header, "X-Forwarded-For", NoChain)
      currentXFF == IF xff = NoChain THEN <<IPText(remoteIP)>> ELSE xff
      deleted == HeaderDel(copied, "X-Forwarded-For")
      withXFF == HeaderAdd(deleted, "X-Forwarded-For",
                           Append(currentXFF, currentIP))
  IN  HeaderAdd(withXFF, "X-Real-IP", remoteIP)

\* line 141: newReq.Header = req.Header, as forwardRequest builds it
forwardHeaders(req) == req.header

\* ---- initial state: after main() has run initServerPool ---------------------
\* initServerPool over a configuration of n backends
initServerPool(n) == [i \in 1..n |-> i]

InitWith(e, sizes, allow, bad) ==
  /\ env = e
  /\ serverPool \in {initServerPool(n) : n \in sizes}
  /\ allowedIPs \in allow
  /\ badURL \in bad
  /\ Alive = [s \in Pool |-> TRUE]
  /\ Locked = [s \in Pool |-> FALSE]
  /\ requestQueue = <<>>
  /\ responseQueue = <<>>
  /\ h = [r \in Reqs |-> HIdle]
  /\ g = [r \in Reqs |-> GNone]
  /\ w = [r \in Reqs |-> NoWrite]
  /\ crashed = FALSE
  /\ held = [s \in Pool |-> 0]
  /\ holder = [s \in Pool |-> 0]
  /\ fault = [r \in Reqs |-> NoFault]

\* the prober has not started, nobody is inside findAvailableServer
MaxCycles == 2
Cycles == 1..MaxCycles
NoProbe == [pc |-> "none", ok |-> FALSE]
ProberStart == [pc |-> "lock", cycle |-> 0]
FinderOut == [pc |-> "out", i |-> 0]
ProberIdle ==
  /\ mu = "free"
  /\ prober = ProberStart
  /\ probes = [s \in Pool |-> [c \in Cycles |-> NoProbe]]
  /\ finder = FinderOut

\* nothing is on the queued path
NoCount == [inQueue |-> 0, polling |-> 0, doing |-> 0, sending |-> 0,
            respLen |-> 0]
CountersIdle == cnt = NoCount

\* the parts looked at on their own are at rest
HeadersIdle ==
  /\ inbound = NoRequest
  /\ decision = NoDecision
  /\ outbound = NoOutbound

Init ==
  /\ InitWith(AnyEnv, Servers, AllowlistChoices, BadURLChoices)
  /\ HeadersIdle /\ ProberIdle /\ CountersIdle /\ gone = {}

\* one backend with a good URL, in the healthy environment
InitHealthy ==
  /\ InitWith(HealthyEnv, {1}, AllowlistChoices, {{}})
  /\ HeadersIdle /\ ProberIdle /\ CountersIdle /\ gone = {}

\* ---- history bookkeeping (no effect on the program state) -------------------
NoteClaim(r, s) ==
  /\ held' = [held EXCEPT ![s] = @ + 1]
  /\ holder' = [holder EXCEPT ![s] = r]

NoteRelease(s) ==
  /\ held' = [held EXCEPT ![s] = @ - 1]
  /\ holder' = [holder EXCEPT ![s] = 0]

histVars == <<held, holder>>
NoteFault(r, kind, s) == fault' = [fault EXCEPT ![r] = [kind |-> kind, server |-> s]]


\* ---- proxyHandler ------------------------------------------------------------
\* an entry that checks the allowlist before the method
ProxyEntryAllowlistFirst(r) ==
  /\ ~crashed
  /\ h[r].pc = "idle"
  /\ r > 1 => h[r - 1].pc # "idle"
  /\ \E method \in env.methods, host \in env.hosts, xRealIP \in env.xRealIPs :
       LET ip == resolveIP(xRealIP, <<host, PeerPort>>) IN
       IF ~isIPAllowed(ip, allowedIPs)
       THEN /\ w' = [w EXCEPT ![r] = HttpError(StatusForbidden, "Access Denied")]
            /\ h' = [h EXCEPT ![r] = [HDone EXCEPT !.method = method,
                                                   !.remoteIP = ip]]
       ELSE IF method # "POST"
       THEN /\ w' = [w EXCEPT ![r] = HttpError(StatusMethodNotAllowed,
                                               "Only POST method is allowed")]
            /\ h' = [h EXCEPT ![r] = [HDone EXCEPT !.method = method]]
       ELSE /\ h' = [h EXCEPT ![r].pc = "select", ![r].method = method,
                              ![r].remoteIP = ip]
            /\ UNCHANGED w
  /\ UNCHANGED <<cfgVars, Alive, Locked, requestQueue, responseQueue, g,
                 crashed, histVars, fault>>

\* lines 195-213: method check, caller IP resolution, allowlist check
ProxyEntry(r) ==
  /\ ~crashed
  /\ h[r].pc = "idle"
  /\ r > 1 => h[r - 1].pc # "idle"       \* requests are numbered by arrival
  /\ \E method \in env.methods, host \in env.hosts, xRealIP \in env.xRealIPs :
       LET ip == resolveIP(xRealIP, <<host, PeerPort>>) IN
       IF method # "POST"
       THEN /\ w' = [w EXCEPT ![r] = HttpError(StatusMethodNotAllowed,
                                               "Only POST method is allowed")]
            /\ h' = [h EXCEPT ![r] = [HDone EXCEPT !.method = method]]
       ELSE IF ~isIPAllowed(ip, allowedIPs)
       THEN /\ w' = [w EXCEPT ![r] = HttpError(StatusForbidden, "Access Denied")]
            /\ h' = [h EXCEPT ![r] = [HDone EXCEPT !.method = method,
                                                   !.remoteIP = ip]]
       ELSE /\ h' = [h EXCEPT ![r].pc = "select", ![r].method = method,
                              ![r].remoteIP = ip]
            /\ UNCHANGED w
  /\ UNCHANGED <<cfgVars, Alive, Locked, requestQueue, responseQueue, g,
                 crashed, histVars, fault>>

\* lines 215-216 and 221-249: server := findAvailableServer(); with a server
\* claimed, io.ReadAll, http.NewRequest and the header copy follow at once
\* (they touch nothing shared); the error returns at lines 227 and 234 leave
\* the server locked
ProxySelect(r) ==
  /\ ~crashed
  /\ h[r].pc = "select"
  /\ LET res == findAvailableServer(Alive, Locked) IN
       /\ Locked' = res.Locked
       /\ IF res.server = NoServer
          THEN /\ h' = [h EXCEPT ![r].pc = "send", ![r].remoteIP = NoHeader]
               /\ UNCHANGED <<histVars, w, fault>>
          ELSE /\ NoteClaim(r, res.server)
               /\ \E readOK \in env.readOK :
                    IF ~readOK
                    THEN /\ w' = [w EXCEPT ![r] =
                                    HttpError(StatusInternalServerError,
                                              "Failed to read request body")]
                         /\ h' = [h EXCEPT ![r] = Returned(h[r])]
                         /\ NoteFault(r, "read", res.server)
                    ELSE IF res.server \in badURL
                    THEN /\ w' = [w EXCEPT ![r] =
                                    HttpError(StatusInternalServerError,
                                              "Failed to create request")]
                         /\ h' = [h EXCEPT ![r] = Returned(h[r])]
                         /\ NoteFault(r, "newreq", res.server)
                    ELSE /\ h' = [h EXCEPT ![r].pc = "do",
                                           ![r].server = res.server,
                                           ![r].remoteIP = NoHeader]
                         /\ UNCHANGED <<w, fault>>
  /\ UNCHANGED <<cfgVars, Alive, requestQueue, responseQueue, g, crashed>>

\* lines 217-218: requestQueue <- r; return.  The handler has written nothing,
\* so net/http completes the caller's response as 200 with an empty body.
ProxyEnqueue(r) ==
  /\ ~crashed
  /\ h[r].pc = "send"
  /\ Len(requestQueue) < QueueCap
  /\ requestQueue' = Append(requestQueue, r)
  /\ h' = [h EXCEPT ![r] = Returned(h[r])]
  /\ w' = [w EXCEPT ![r] = [status |-> StatusOK, body |-> EmptyBody]]
  /\ UNCHANGED <<cfgVars, Alive, Locked, responseQueue, g, crashed,
                 histVars, fault>>

\* a client.Do step that marks the backend dead when the call fails
ProxyDoMarkingDead(r) ==
  /\ ~crashed
  /\ h[r].pc = "do"
  /\ \E out \in env.doOutcomes :
       IF out.err # NoErr
       THEN /\ w' = [w EXCEPT ![r] = HttpError(StatusBadGateway, "Server error")]
            /\ h' = [h EXCEPT ![r] = Returned(h[r])]
            /\ NoteFault(r, out.err, h[r].server)
            /\ Alive' = [Alive EXCEPT ![h[r].server] = FALSE]
            /\ UNCHANGED <<Locked, histVars>>
       ELSE /\ h' = [h EXCEPT ![r].pc = "relay",
                              ![r].resp = [status |-> out.status,
                                           body |-> BackendBody(h[r].server, r)]]
            /\ IF out.status >= 500
               THEN NoteFault(r, "5xx", h[r].server)
               ELSE UNCHANGED fault
            /\ Locked' = unlockServer(h[r].server, Locked)
            /\ NoteRelease(h[r].server)
            /\ UNCHANGED <<w, Alive>>
  /\ UNCHANGED <<cfgVars, requestQueue, responseQueue, g, crashed>>

\* lines 251-263: resp, err := client.Do(newReq); the error return at line 259
\* leaves the server locked; with a response in hand, unlockServer(server)
ProxyDo(r) ==
  /\ ~crashed
  /\ h[r].pc = "do"
  /\ \E out \in env.doOutcomes :
       IF out.err # NoErr
       THEN /\ w' = [w EXCEPT ![r] = HttpError(StatusBadGateway, "Server error")]
            /\ h' = [h EXCEPT ![r] = Returned(h[r])]
            /\ NoteFault(r, out.err, h[r].server)
            /\ UNCHANGED <<Locked, histVars>>
       ELSE /\ h' = [h EXCEPT ![r].pc = "relay",
                              ![r].resp = [status |-> out.status,
                                           body |-> BackendBody(h[r].server, r)]]
            /\ IF out.status >= 500
               THEN NoteFault(r, "5xx", h[r].server)
               ELSE UNCHANGED fault
            /\ Locked' = unlockServer(h[r].server, Locked)
            /\ NoteRelease(h[r].server)
            /\ UNCHANGED w
  /\ UNCHANGED <<cfgVars, Alive, requestQueue, responseQueue, g, crashed>>

\* what lines 265-280 send to the caller for the response resp
relayed(resp) ==
  IF resp.status >= 500 THEN HttpError(StatusBadGateway, "Server error")
  ELSE resp

\* a relay step that releases the backend a second time
ProxyRelayUnlockingAgain(r) ==
  /\ ~crashed
  /\ h[r].pc = "relay"
  /\ w' = [w EXCEPT ![r] = relayed(h[r].resp)]
  /\ h' = [h EXCEPT ![r] = Returned(h[r])]
  /\ Locked' = unlockServer(h[r].server, Locked)
  /\ NoteRelease(h[r].server)
  /\ UNCHANGED <<cfgVars, Alive, requestQueue, responseQueue, g,
                 crashed, fault>>

\* lines 265-280: 5xx check, then status and body copied to the caller
ProxyRelay(r) ==
  /\ ~crashed
  /\ h[r].pc = "relay"
  /\ w' = [w EXCEPT ![r] = relayed(h[r].resp)]
  /\ h' = [h EXCEPT ![r] = Returned(h[r])]
  /\ UNCHANGED <<cfgVars, Alive, Locked, requestQueue, responseQueue, g,
                 crashed, histVars, fault>>

\* ---- handleRequests / forwardRequest -----------------------------------------
\* lines 166-168: for req := range requestQueue { go func(req) ... }
HandleRequests ==
  /\ ~crashed
  /\ Len(requestQueue) > 0
  /\ g' = [g EXCEPT ![Head(requestQueue)].pc = "poll"]
  /\ requestQueue' = Tail(requestQueue)
  /\ UNCHANGED <<cfgVars, Alive, Locked, responseQueue, h, w, crashed,
                 histVars, fault>>

\* http.Error(nil, ...) at lines 128, 136, 150, 158: calling a method of the nil
\* ResponseWriter panics in a goroutine nobody recovers; the process dies
\* before the unlockServer that follows is reached.
PanicOnNilWriter(r) ==
  /\ crashed' = TRUE
  /\ g' = [g EXCEPT ![r].pc = "panicked"]

\* lines 169-177 and 123-141: one turn of the polling loop; with a server
\* claimed, forwardRequest's io.ReadAll(req.Body), http.NewRequest and header
\* assignment follow at once
RetryPoll(r) ==
  /\ ~crashed
  /\ g[r].pc = "poll"
  /\ LET res == findAvailableServer(Alive, Locked) IN
       /\ Locked' = res.Locked
       /\ IF res.server = NoServer
          THEN UNCHANGED <<g, histVars, crashed, fault>>  \* time.Sleep, again
          ELSE /\ NoteClaim(r, res.server)
               /\ \E readOK \in env.readOK :
                    IF ~readOK
                    THEN PanicOnNilWriter(r) /\ NoteFault(r, "read", res.server)
                    ELSE IF res.server \in badURL
                    THEN PanicOnNilWriter(r) /\ NoteFault(r, "newreq", res.server)
                    ELSE /\ g' = [g EXCEPT ![r].pc = "do",
                                           ![r].server = res.server]
                         /\ UNCHANGED <<crashed, fault>>
  /\ UNCHANGED <<cfgVars, Alive, requestQueue, responseQueue, h, w>>

\* lines 143-161: client.Do and the 5xx check
FwdDo(r) ==
  /\ ~crashed
  /\ g[r].pc = "do"
  /\ \E out \in env.doOutcomes :
       IF out.err # NoErr
       THEN PanicOnNilWriter(r) /\ NoteFault(r, out.err, g[r].server)
       ELSE IF out.status >= 500
       THEN PanicOnNilWriter(r) /\ NoteFault(r, "5xx", g[r].server)
       ELSE /\ g' = [g EXCEPT ![r].pc = "send",
                              ![r].resp = [status |-> out.status,
                                           body |-> BackendBody(g[r].server, r)]]
            /\ UNCHANGED <<crashed, fault>>
  /\ UNCHANGED <<cfgVars, Alive, Locked, requestQueue, responseQueue, h, w,
                 histVars>>

\* lines 163-164: responseQueue <- resp; return (nothing receives from it, and
\* the server stays locked)
FwdSend(r) ==
  /\ ~crashed
  /\ g[r].pc = "send"
  /\ Len(responseQueue) < RespQueueCap
  /\ responseQueue' = Append(responseQueue, g[r].resp)
  /\ g' = [g EXCEPT ![r] = GDone]
  /\ UNCHANGED <<cfgVars, Alive, Locked, requestQueue, h, w, crashed,
                 histVars, fault>>

\* ---- checkServerAvailability --------------------------------------------------
\* lines 282-303: every cycle spawns, for each backend, a goroutine that dials
\* it and writes s.Alive when the dial returns.  Cycles follow each other for
\* ever and their dials overlap freely, so at any moment a dial of any backend
\* may return; this is the step of one such goroutine.
ProbeResult(s) ==
  /\ ~crashed
  /\ \E dialOK \in env.dialOK : Alive' = [Alive EXCEPT ![s] = dialOK]
  /\ UNCHANGED <<cfgVars, Locked, requestQueue, responseQueue, h, g, w,
                 crashed, histVars, fault>>

Next ==
  \/ \E r \in Reqs : ProxyEntry(r)
  \/ \E r \in Reqs : ProxySelect(r)
  \/ \E r \in Reqs : ProxyEnqueue(r)
  \/ \E r \in Reqs : ProxyDo(r)
  \/ \E r \in Reqs : ProxyRelay(r)
  \/ HandleRequests
  \/ \E r \in Reqs : RetryPoll(r)
  \/ \E r \in Reqs : FwdDo(r)
  \/ \E r \in Reqs : FwdSend(r)
  \/ \E s \in Pool : ProbeResult(s)

Spec == Init /\ [][Next]_vars

\* The goroutine scheduler runs every runnable goroutine eventually.
Fairness ==
  /\ \A r \in Reqs : WF_vars(ProxyEntry(r)) /\ WF_vars(ProxySelect(r))
                     /\ WF_vars(ProxyEnqueue(r)) /\ WF_vars(ProxyDo(r))
                     /\ WF_vars(ProxyRelay(r)) /\ WF_vars(RetryPoll(r))
                     /\ WF_vars(FwdDo(r)) /\ WF_vars(FwdSend(r))
  /\ WF_vars(HandleRequests)

\* the healthy single-backend scenario, fairly scheduled
SpecHealthy == InitHealthy /\ [][Next]_vars /\ Fairness

\* ---- the header rewriting of one request ------------------------------------
\* One inbound request, any of RequestChoices, goes through the allowlist check
\* and then through the header construction of either forwarding path.
InitHeaders ==
  /\ InitWith(AnyEnv, {1}, AllowlistChoices, {{}})
  /\ inbound \in RequestChoices
  /\ decision = NoDecision
  /\ outbound = NoOutbound
  /\ ProberIdle /\ CountersIdle /\ gone = {}

notHdrVars == <<Alive, Locked, reqVars, env, serverPool, allowedIPs, badURL,
                raceVars, cnt, gone>>

\* lines 201-211: the allowlist check on the inbound request
CheckAllowed ==
  /\ decision = NoDecision
  /\ decision' = allowDecision(inbound, allowedIPs)
  /\ UNCHANGED <<inbound, outbound, notHdrVars>>

\* lines 237-251: proxyHandler builds the outbound headers and sends
ProxyBuild ==
  /\ decision = "allow"
  /\ outbound = NoOutbound
  /\ outbound' = [path |-> "immediate", header |-> proxyHeaders(inbound)]
  /\ UNCHANGED <<inbound, decision, notHdrVars>>

\* lines 133-143: forwardRequest builds the outbound headers and sends
ForwardBuild ==
  /\ decision = "allow"
  /\ outbound = NoOutbound
  /\ outbound' = [path |-> "queued", header |-> forwardHeaders(inbound)]
  /\ UNCHANGED <<inbound, decision, notHdrVars>>

NextHeaders == CheckAllowed \/ ProxyBuild \/ ForwardBuild

SpecHeaders == InitHeaders /\ [][NextHeaders]_vars

\* ---- the prober and findAvailableServer, statement by statement -------------
\* checkServerAvailability runs up to MaxCycles cycles; the goroutines it spawns
\* dial and write s.Alive on their own, each when its dial returns (within the
\* 5 s dial timeout, whatever the interval between cycles).  One other
\* goroutine goes in and out of findAvailableServer and unlockServer.
InitProber ==
  /\ InitWith(AnyEnv, Servers, {<<>>}, {{}})
  /\ ProberIdle
  /\ HeadersIdle /\ CountersIdle /\ gone = {}

notRaceVars == <<reqVars, env, serverPool, allowedIPs, badURL, hdrVars, cnt, gone>>

\* line 284: mu.Lock() at the top of a cycle
ProberLock ==
  /\ prober.pc = "lock"
  /\ prober.cycle < MaxCycles
  /\ mu = "free"
  /\ mu' = "prober"
  /\ prober' = [pc |-> "spawn", cycle |-> prober.cycle + 1]
  /\ UNCHANGED <<Alive, Locked, probes, finder, notRaceVars>>

\* lines 285-299: one goroutine per backend is started
ProberSpawn ==
  /\ prober.pc = "spawn"
  /\ probes' = [s \in Pool |->
                  [probes[s] EXCEPT ![prober.cycle] = [pc |-> "dial", ok |-> FALSE]]]
  /\ prober' = [prober EXCEPT !.pc = "unlock"]
  /\ UNCHANGED <<Alive, Locked, mu, finder, notRaceVars>>

\* lines 300-301: mu.Unlock(), then the sleep until the next cycle
ProberUnlock ==
  /\ prober.pc = "unlock"
  /\ mu' = "free"
  /\ prober' = [prober EXCEPT !.pc = "lock"]
  /\ UNCHANGED <<Alive, Locked, probes, finder, notRaceVars>>

\* lines 287-290: net.DialTimeout returns in the goroutine of backend s, cycle c
ProbeDial(s, c) ==
  /\ probes[s][c].pc = "dial"
  /\ \E dialOK \in env.dialOK :
       probes' = [probes EXCEPT ![s][c] = [pc |-> "write", ok |-> dialOK]]
  /\ UNCHANGED <<Alive, Locked, mu, prober, finder, notRaceVars>>

\* lines 291 and 294: s.Alive = false / s.Alive = true, with no mu.Lock()
ProbeWrite(s, c) ==
  /\ probes[s][c].pc = "write"
  /\ Alive' = [Alive EXCEPT ![s] = probes[s][c].ok]
  /\ probes' = [probes EXCEPT ![s][c].pc = "done"]
  /\ UNCHANGED <<Locked, mu, prober, finder, notRaceVars>>

\* lines 105-106: mu.Lock(); defer mu.Unlock()
FindLock ==
  /\ finder.pc = "out"
  /\ mu = "free"
  /\ mu' = "finder"
  /\ finder' = [pc |-> "scan", i |-> 1]
  /\ UNCHANGED <<Alive, Locked, prober, probes, notRaceVars>>

\* lines 107-113: one turn of the loop over serverPool: the flags of backend
\* finder.i are read; the function returns, unlocking mu, with the backend
\* locked or, past the end of the pool, with nil
FindScan ==
  /\ finder.pc = "scan"
  /\ IF finder.i > Len(serverPool)
     THEN /\ finder' = FinderOut /\ mu' = "free" /\ UNCHANGED Locked
     ELSE IF Alive[finder.i] /\ ~Locked[finder.i]
     THEN /\ Locked' = [Locked EXCEPT ![finder.i] = TRUE]
          /\ finder' = FinderOut /\ mu' = "free"
     ELSE /\ finder' = [finder EXCEPT !.i = finder.i + 1]
          /\ UNCHANGED <<Locked, mu>>
  /\ UNCHANGED <<Alive, prober, probes, notRaceVars>>

\* lines 116-120: unlockServer(s), all of it under mu
UnlockStep(s) ==
  /\ finder.pc = "out"
  /\ mu = "free"
  /\ Locked[s]
  /\ Locked' = unlockServer(s, Locked)
  /\ UNCHANGED <<Alive, mu, prober, probes, finder, notRaceVars>>

NextProber ==
  \/ ProberLock
  \/ ProberSpawn
  \/ ProberUnlock
  \/ \E s \in Pool : \E c \in Cycles : ProbeDial(s, c)
  \/ \E s \in Pool : \E c \in Cycles : ProbeWrite(s, c)
  \/ FindLock
  \/ FindScan
  \/ \E s \in Pool : UnlockStep(s)

SpecProber == InitProber /\ [][NextProber]_vars

\* ---- callers that go away -----------------------------------------------------
\* The caller of a request that is in requestQueue, or whose retry goroutine is
\* polling, closes its connection.  No statement of the program runs on that
\* event; only the record of it changes.
Disconnect(r) ==
  /\ ~crashed
  /\ r \notin gone
  /\ \/ \E i \in 1..Len(requestQueue) : requestQueue[i] = r
     \/ g[r].pc = "poll"
  /\ gone' = gone \cup {r}
  /\ UNCHANGED <<Alive, Locked, reqVars, env, serverPool, allowedIPs, badURL,
                 hdrVars, raceVars, cnt>>

NextCancel ==
  \/ Next
  \/ \E r \in Reqs : Disconnect(r)

SpecCancel == Init /\ [][NextCancel]_vars

\* ---- the queued path over a long run ----------------------------------------
\* A pool of HandoffPool backends and any number of requests, of which at most
\* MaxPending are on the queued path at a time.  The requests are counted, not
\* named: cnt says how many are in requestQueue, polling, in client.Do, at the
\* send on responseQueue, and how many responses responseQueue holds.  Only
\* requests that find no backend on arrival are followed, and only backend
\* answers below 500 (any other outcome ends the process).
HandoffPool == 101
MaxPending == 2

InitHandoff ==
  /\ InitWith(AnyEnv, {HandoffPool}, {<<>>}, {{}})
  /\ CountersIdle
  /\ HeadersIdle /\ ProberIdle /\ gone = {}

notCntVars == <<reqVars, env, serverPool, allowedIPs, badURL, hdrVars,
                raceVars, gone>>

Pending == cnt.inQueue + cnt.polling + cnt.doing + cnt.sending

\* lines 215-219: findAvailableServer returns nil, requestQueue <- r
CountArrive ==
  /\ Pending < MaxPending
  /\ findAvailableServer(Alive, Locked).server = NoServer
  /\ cnt.inQueue < QueueCap
  /\ cnt' = [cnt EXCEPT !.inQueue = @ + 1]
  /\ UNCHANGED <<Alive, Locked, notCntVars>>

\* lines 166-168: handleRequests takes a request and starts its goroutine
CountSpawn ==
  /\ cnt.inQueue > 0
  /\ cnt' = [cnt EXCEPT !.inQueue = @ - 1, !.polling = @ + 1]
  /\ UNCHANGED <<Alive, Locked, notCntVars>>

\* lines 169-177: a polling goroutine gets a backend from findAvailableServer
CountClaim ==
  /\ cnt.polling > 0
  /\ LET res == findAvailableServer(Alive, Locked) IN
       /\ res.server # NoServer
       /\ Locked' = res.Locked
  /\ cnt' = [cnt EXCEPT !.polling = @ - 1, !.doing = @ + 1]
  /\ UNCHANGED <<Alive, notCntVars>>

\* lines 143-161: client.Do returns a response with a status below 500
CountAnswer ==
  /\ cnt.doing > 0
  /\ \E out \in env.doOutcomes : out.err = NoErr /\ out.status < 500
  /\ cnt' = [cnt EXCEPT !.doing = @ - 1, !.sending = @ + 1]
  /\ UNCHANGED <<Alive, Locked, notCntVars>>

\* lines 163-164: responseQueue <- resp; return, the backend still locked
CountSend ==
  /\ cnt.sending > 0
  /\ cnt.respLen < RespQueueCap
  /\ cnt' = [cnt EXCEPT !.sending = @ - 1, !.respLen = @ + 1]
  /\ UNCHANGED <<Alive, Locked, notCntVars>>

\* lines 282-303: a whole prober cycle in which every dial ends the same way
ProbeAll ==
  /\ \E dialOK \in env.dialOK : Alive' = [s \in Pool |-> dialOK]
  /\ UNCHANGED <<Locked, cnt, notCntVars>>

NextHandoff ==
  \/ CountArrive
  \/ CountSpawn
  \/ CountClaim
  \/ CountAnswer
  \/ CountSend
  \/ ProbeAll

SpecHandoff == InitHandoff /\ [][NextHandoff]_vars

\* ---- vocabulary of the properties ------------------------------------------
\* request r holds backend s, from its claim until it has finished with the
\* response it got from s
Using(r, s) ==
  \/ h[r].server = s /\ h[r].pc \in {"do", "relay"}
  \/ g[r].server = s /\ g[r].pc \in {"do", "send"}

\* request r is building or sending its outbound request to backend s
Forwarding(r, s) ==
  \/ h[r].server = s /\ h[r].pc = "do"
  \/ g[r].server = s /\ g[r].pc = "do"

InQueue(r) == \E i \in 1..Len(requestQueue) : requestQueue[i] = r

\* r went the queued way
WasQueued(r) == InQueue(r) \/ g[r].pc # "none"

\* no request is in progress
Quiescent ==
  /\ requestQueue = <<>>
  /\ \A r \in Reqs : h[r].pc \in {"idle", "done"} /\ g[r].pc \in {"none", "done"}

Avail(s) == Alive[s] /\ ~Locked[s]

\* the caller of r has been sent 403 "Access Denied"
Denied(r) == w[r].status = StatusForbidden /\ w[r].body.kind = "Access Denied"

\* ---- C1 ----------------------------------------------------------------------
\* C1: at most one forward is in flight per backend: while a request holds a
\* backend (from findAvailableServer until it has finished using the backend's
\* response), no other request is forwarding to that backend.
C1_OneForwardPerBackend ==
  \A s \in Pool : \A r1 \in Reqs : \A r2 \in Reqs \ {r1} :
    ~(Using(r1, s) /\ Forwarding(r2, s))

\* ---- C2 ----------------------------------------------------------------------
\* C2: every claim is followed by a release on every exit path, so whenever no
\* request is in progress every backend is unlocked.
C2_NoLeakedClaim ==
  Quiescent => \A s \in Pool : ~Locked[s]

\* ---- C3 ----------------------------------------------------------------------
\* C3: releases never exceed claims (held = claims - releases is 0 or 1 and
\* agrees with Locked), and the request whose next step calls unlockServer holds
\* the claim of the backend it unlocks.
C3_ReleasePairedWithClaim ==
  /\ \A s \in Pool : held[s] >= 0 /\ held[s] = (IF Locked[s] THEN 1 ELSE 0)
  /\ \A r \in Reqs : h[r].pc = "do" =>
       Locked[h[r].server] /\ holder[h[r].server] = r

\* a backend has been claimed and released again, and its releaser moves on
C3_Witness ==
  \E r \in Reqs : h[r].pc = "relay" /\ ~Locked[h[r].server]
                  /\ held[h[r].server] = 0

\* ---- C4 ----------------------------------------------------------------------
ClaimStepOK(s) ==
  /\ Avail(s)
  /\ \A j \in Pool : j < s => ~Avail(j)
  /\ Locked' = [Locked EXCEPT ![s] = TRUE]
  /\ Alive' = Alive

NilStepOK ==
  /\ \A s \in Pool : ~Avail(s)
  /\ Locked' = Locked
  /\ Alive' = Alive

\* the backend the step hands to request r
Claimed(r, s) == holder'[s] = r /\ holder[s] # r

\* C4: a findAvailableServer step returns the first backend in pool order that
\* is alive and unlocked and locks exactly that one; it returns nil, changing no
\* flag, exactly when no backend is alive and unlocked.
C4_FirstAvailableClaimed ==
  [][\A r \in Reqs :
       /\ (h[r].pc = "select" /\ h'[r].pc = "send") => NilStepOK
       /\ (h[r].pc = "select" /\ h'[r].pc \notin {"select", "send"}) =>
            \E s \in Pool : Claimed(r, s) /\ ClaimStepOK(s)
       /\ (h[r].pc = "select" /\ h'[r].pc = "do") => Claimed(r, h'[r].server)
       /\ (h[r].pc = "select" /\ h'[r].pc # "select") =>
            (h'[r].pc = "send" <=> \A s \in Pool : ~Avail(s))
       /\ (g[r].pc = "poll" /\ g'[r].pc # "poll") =>
            \E s \in Pool : Claimed(r, s) /\ ClaimStepOK(s)
       /\ (g[r].pc = "poll" /\ g'[r].pc = "do") => Claimed(r, g'[r].server)
    ]_vars

\* a request has claimed the second backend, passing over a dead first one
C4_Witness ==
  \E r \in Reqs : h[r].pc = "do" /\ h[r].server = 2
                  /\ ~Alive[1] /\ ~Locked[1]

\* ---- C5 ----------------------------------------------------------------------
InRange(ip, allowed) == \E i \in 1..Len(allowed) : allowed[i] = ip

C5_State ==
  /\ \A r \in Reqs :
       Denied(r) => /\ h[r].pc = "done" /\ g[r].pc = "none" /\ ~InQueue(r)
                    /\ \A s \in Pool : holder[s] # r
  /\ \A r \in Reqs :
       (h[r].remoteIP # NoHeader /\ Len(allowedIPs) > 0
          /\ ~InRange(h[r].remoteIP, allowedIPs)) => Denied(r)
  /\ Len(allowedIPs) = 0 => \A r \in Reqs : ~Denied(r)

C6_QueuedCallerWaits ==
  \A r \in Reqs :
    /\ (InQueue(r) \/ g[r].pc \in {"poll", "do", "send"})
         => w[r].status = NoStatus
    /\ (h[r].pc = "send" /\ Len(requestQueue) >= QueueCap)
         => w[r].status = 503

\* ---- C7 ----------------------------------------------------------------------
\* C7: a queued request's caller is not answered before forwardRequest has
\* produced the outcome, and what it is sent is the outcome of its own request.
C7_OwnOutcomeDelivered ==
  \A r \in Reqs : (WasQueued(r) /\ w[r].status # NoStatus) =>
    /\ g[r].pc = "done"
    /\ w[r].body.kind = "backend" /\ w[r].body.r = r

\* ---- C8 ----------------------------------------------------------------------
\* C8: in the healthy single-backend scenario, once every request has run to
\* its end and all of them were allowed, each caller has received the backend's
\* response to its own request.
C8_BothServed ==
  (Quiescent /\ \A r \in Reqs : h[r].pc = "done" /\ ~Denied(r)) =>
    \A r \in Reqs : w[r] = [status |-> StatusOK, body |-> BackendBody(1, r)]

\* ---- C9 ----------------------------------------------------------------------
\* C9: after a timeout or network error of the outbound call the backend is
\* released, the request is queued or being retried, and the caller has not
\* been sent an error.
C9_TransientFailureRetried ==
  \A r \in Reqs : fault[r].kind \in DoErrors =>
    /\ holder[fault[r].server] # r
    /\ w[r].status \notin {StatusInternalServerError, StatusBadGateway}
    /\ InQueue(r) \/ g[r].pc \in {"poll", "do", "send", "done"}

\* ---- C10 ---------------------------------------------------------------------
\* C10: once a request whose backend answered with a status >= 500 has been
\* dealt with, the backend is released, the request is not queued again, and
\* its caller has been sent the gateway error.
C10_BackendErrorSurfaced ==
  \A r \in Reqs :
    (fault[r].kind = "5xx" /\ h[r].pc = "done") =>
      /\ holder[fault[r].server] # r
      /\ ~InQueue(r)
      /\ w[r] = HttpError(StatusBadGateway, "Server error")

\* ---- C11 ---------------------------------------------------------------------
\* C11: a backend answer with a status below 500 reaches the original caller
\* unchanged: the step that finishes with such a response (the handler's relay,
\* or forwardRequest's hand-off for a queued request) leaves the caller with
\* exactly that status and body.
C11_RoundTrip ==
  [][\A r \in Reqs :
       /\ (h[r].pc = "relay" /\ h'[r].pc = "done" /\ h[r].resp.status < 500)
            => w'[r] = h[r].resp
       /\ (g[r].pc = "send" /\ g'[r].pc = "done" /\ g[r].resp.status < 500)
            => w'[r] = g[r].resp
    ]_vars

\* ---- C13 ---------------------------------------------------------------------
\* C13: no network or backend error during forwarding, on the immediate or the
\* queued path, brings the process down.
C13_SurvivesForwardErrors ==
  ~crashed

\* ---- C16 ---------------------------------------------------------------------
\* C16: a step that changes an Alive flag (a prober step) changes the flag of
\* one backend and nothing else, Locked included; every step of a request
\* (claim, release, any forwarding outcome) leaves Alive as it was; the pool of
\* backends never changes.
C16_Frame ==
  [][/\ serverPool' = serverPool
     /\ Alive' # Alive =>
          /\ \E s \in Pool : Alive' = [Alive EXCEPT ![s] = ~Alive[s]]
          /\ UNCHANGED <<Locked, requestQueue, responseQueue, h, g, w, crashed>>
     /\ (Locked' # Locked \/ h' # h \/ g' # g \/ w' # w
           \/ requestQueue' # requestQueue \/ responseQueue' # responseQueue)
          => Alive' = Alive
    ]_vars

\* a forward failed on a backend that is still marked alive, while a backend
\* the prober has marked dead is still claimed
C16_Witness ==
  /\ \E r \in Reqs : fault[r].kind \in DoErrors /\ Alive[fault[r].server]
  /\ \E s \in Pool : ~Alive[s] /\ Locked[s]

\* ---- C17 ---------------------------------------------------------------------
\* the caller of r has been sent 405
MethodRejected(r) ==
  w[r] = HttpError(StatusMethodNotAllowed, "Only POST method is allowed")

\* C17: a request whose method is not POST is answered 405 by its first step,
\* before its caller IP is resolved or checked, and that step changes no flag
\* and no queue; such a request never claims a backend, is never queued and
\* never forwarded.
C17_NonPostRejected ==
  [][\A r \in Reqs :
       /\ (h[r].pc = "idle" /\ h'[r].pc # "idle" /\ h'[r].method # "POST") =>
            /\ MethodRejected(r)' /\ h'[r].pc = "done"
            /\ h'[r].remoteIP = NoHeader
            /\ UNCHANGED <<Alive, Locked, requestQueue, responseQueue, g,
                           holder>>
       /\ h'[r].method \notin {NoMethod, "POST"} =>
            /\ MethodRejected(r)' /\ h'[r].pc = "done" /\ g'[r].pc = "none"
            /\ ~InQueue(r)'
            /\ \A s \in Pool : holder'[s] # r
    ]_vars

\* a GET request has been rejected under a non-empty allowlist while another
\* request holds a backend
C17_Witness ==
  \E r \in Reqs : /\ h[r].method = "GET" /\ MethodRejected(r)
                  /\ Len(allowedIPs) > 0
                  /\ \E r2 \in Reqs \ {r} : \E s \in Pool : holder[s] = r2

\* ---- C12 ---------------------------------------------------------------------
\* the chain of X-Forwarded-For on the inbound request, empty when absent
inboundChain == HeaderGet(inbound.header, "X-Forwarded-For", NoChain)

\* C12: the outbound request of either path carries every other inbound header
\* unchanged, one X-Forwarded-For value that is the inbound chain with the
\* caller's IP appended, and X-Real-IP equal to the caller's resolved IP.
C12_OutboundHeaders ==
  outbound.path # "none" =>
    /\ \A n \in HeaderNames \ {"X-Forwarded-For", "X-Real-IP"} :
         outbound.header[n] = inbound.header[n]
    /\ outbound.header["X-Forwarded-For"] =
         <<Append(inboundChain, IPText(callerIP(inbound)))>>
    /\ HeaderGet(outbound.header, "X-Real-IP", NoHeader) = callerIP(inbound)

\* ---- C20 ---------------------------------------------------------------------
\* C20: the allowlist decision on a request is the decision on any request from
\* the same peer address that differs from it only in its X-Real-IP header.
C20_DecisionByPeerOnly ==
  decision # NoDecision =>
    \A xri \in {<<>>} \cup {<<ip>> : ip \in IPs} :
      allowDecision([inbound EXCEPT !.header["X-Real-IP"] = xri], allowedIPs)
        = decision

\* ---- C14 ---------------------------------------------------------------------
\* C14: once the caller of a queued request has disconnected, no backend is
\* claimed for that request: its retry goroutine never gets past its polling.
C14_AbandonedNotClaimed ==
  [][\A r \in gone :
       /\ \A s \in Pool : ~Claimed(r, s)
       /\ g[r].pc = "poll" => g'[r].pc \in {"poll", "done"}
    ]_vars

\* ---- C15 ---------------------------------------------------------------------
\* C15: a goroutine at its write of s.Alive holds mu, and no probe is at its
\* write of a backend's Alive flag while findAvailableServer, inside its
\* critical section, is at its read of that flag.
C15_FlagsUnderMu ==
  \A s \in Pool : \A c \in Cycles :
    probes[s][c].pc = "write" =>
      /\ mu = "probe"
      /\ ~(finder.pc = "scan" /\ finder.i = s)

\* ---- C18 ---------------------------------------------------------------------
\* C18: a retry goroutine whose backend has answered can hand the response
\* over: it is never at its send with responseQueue full, where, nothing
\* receiving from responseQueue, it would stay for ever.
C18_HandoffNeverBlocks ==
  cnt.sending > 0 => cnt.respLen < RespQueueCap

\* ---- C19 ---------------------------------------------------------------------
\* every probe of backend s that was started has written its result
ProbesSettled(s) == \A c \in Cycles : probes[s][c].pc \in {"none", "done"}

\* C19: when every started probe of a backend has completed, the backend's
\* Alive flag is the result of the probe started in the latest cycle.
C19_LatestProbeWins ==
  \A s \in Pool :
    (prober.cycle > 0 /\ ProbesSettled(s)
       /\ probes[s][prober.cycle].pc = "done")
      => Alive[s] = probes[s][prober.cycle].ok

TypeOK ==
  /\ Alive \in [Pool -> BOOLEAN]
  /\ Locked \in [Pool -> BOOLEAN]
  /\ crashed \in BOOLEAN
====
